---- MODULE Spec2Model ----
(***************************************************************************)
(* Model of the checkpointed batch runner of overnight (src/src/runner.ts):*)
(* runJobsWithState, runJob, the session-id callbacks and the checkpoint   *)
(* file.  One runner process at a time; the process can be killed at any   *)
(* instant and started again on the checkpoint it left.                    *)
(* Further sections model the security hooks (src/src/security.ts) and the *)
(* goal runner (goal-runner.ts: runGoal, isConverging), each under its own *)
(* specification.                                                          *)
(***************************************************************************)
EXTENDS Integers, Sequences, FiniteSets, TLC

\* ------------------------------------------------------------------ bounds
MaxJobs == 2          \* longest job list in the tasks file
MaxRetryCount == 2    \* largest retry_count of a job
MaxRuns == 2          \* process starts (first run + restarts)
MaxEdits == 1         \* edits of the tasks file by the user
MaxLate == 1          \* abandoned calls whose init message is still to come
MaxToolUses == 2      \* tool calls the agent asks for under the hooks
MaxIterations == 3    \* largest max_iterations of a goal
MaxThreshold == 3     \* largest convergence_threshold of a goal
MaxRemaining == 1     \* longest remaining_items list the agent reports
MaxGoalRuns == 2      \* calls of runGoal on the same goal state file
MaxHistory == 4       \* longest history handed to isConverging

\* ------------------------------------------------------------ value spaces
Prompts == {"pA", "pB"}

None == <<>>
Some(x) == <<x>>

RECURSIVE SeqsUpTo(_, _)
SeqsUpTo(S, n) ==
  IF n = 0 THEN {<<>>}
  ELSE LET shorter == SeqsUpTo(S, n - 1)
       IN shorter \cup {Append(s, x) : s \in {t \in shorter : Len(t) = n - 1}, x \in S}

JobLists == SeqsUpTo(Prompts, MaxJobs)

\* fates of a primary-pass Adapter call and of a verification-pass call
PrimaryFates == {"ok", "ok_nosession", "timeout", "retryable", "fatal"}
VerifyFates == {"v_ok", "v_unfixable", "v_timeout", "v_retryable", "v_fatal"}

\* ------------------------------------------------------------------- state
VARIABLES
  pc,               \* position of the runner process
  runs,             \* number of process starts so far
  tasksFile,        \* the job source on disk (list of prompts)
  edits,            \* number of edits of tasksFile
  stateFile,        \* the checkpoint file: None or Some(RunState)
  state,            \* runJobsWithState: state (in memory)
  configs,          \* runJobsWithState: configs (the original input)
  currentConfigs,   \* runJobsWithState: currentConfigs
  cur,              \* runJobsWithState: config.prompt of the selected job
  attempt,          \* runJob: attempt
  retriesUsed,      \* runJob: retriesUsed
  resumeSessionId,  \* runJob: resumeSessionId
  sessionId,        \* runJob: sessionId of the current attempt
  call,             \* the Adapter call in flight: None or Some(record)
  abandoned,        \* calls abandoned at timeout that have not sent init yet
  hist,             \* fates of the Adapter calls of the current runJob
  results,          \* value returned by runJobsWithState
  interrupted,      \* key the checkpoint loaded at start had in progress, or ""
  jobCfg,           \* retry_count, verify and security the tasks file gives every job
  claudePath,       \* findClaudeExecutable() finds the executable
  scripted,         \* the Adapter replays a fixed script per (job, attempt)
  script,           \* fates the scripted Adapter has shown so far
  responses,        \* result texts the Adapter may end a verification with
  verifyText,       \* runJob: verifyResult.result of the last verification
  secCfg,           \* createSecurityHooks: config
  hookReq,          \* the tool call that passed PreToolUse and is executing
  hookIn,           \* input of the last preToolUseHook call
  hookOut,          \* return value of the last preToolUseHook call
  auditFile,        \* lines of the audit_log file
  toolUses,         \* number of tool calls the agent has asked for
  gpc,              \* position of runGoal
  goalRuns,         \* number of calls of runGoal so far
  goalCfg,          \* runGoal: maxIterations and convergenceThreshold
  runState,         \* runGoal: runState (in memory)
  goalStateFile,    \* the goal state file: None or Some(GoalRunState)
  iterWrites,       \* states written by saveIterationState, in order
  iteration,        \* runGoal: iteration of the build loop
  gateAttempt,      \* runGoal: gateAttempt of the gate loop
  gcalls,           \* runClaudePrompt calls issued by this runGoal, by kind
  loopExit,         \* how this runGoal left the build loop: max, stalled, done
  startIteration,   \* runGoal: startIteration
  buildPrompt,      \* runGoal: prompt of the build call issued last
  cStates,          \* isConverging: states
  cThreshold,       \* isConverging: threshold
  cResult           \* isConverging: None or Some(returned value)

vars == <<pc, runs, tasksFile, edits, stateFile, state, configs, currentConfigs,
          cur, attempt, retriesUsed, resumeSessionId, sessionId, call,
          abandoned, hist, results, interrupted, jobCfg, claudePath, scripted,
          script, responses, verifyText, secCfg, hookReq, hookIn, hookOut,
          auditFile, toolUses, gpc, goalRuns, goalCfg, runState, goalStateFile,
          iterWrites, iteration, gateAttempt, gcalls, loopExit, startIteration,
          buildPrompt, cStates, cThreshold, cResult>>

\* the batch runner's variables
batchVars == <<pc, runs, tasksFile, edits, stateFile, state, configs, currentConfigs,
               cur, attempt, retriesUsed, resumeSessionId, sessionId, call,
               abandoned, hist, results, interrupted, jobCfg, claudePath, scripted,
               script, responses, verifyText>>

\* the security hooks' variables
hookVars == <<secCfg, hookReq, hookIn, hookOut, auditFile, toolUses>>

\* the goal runner's variables
runVars == <<gpc, goalRuns, goalCfg, runState, goalStateFile, iterWrites, iteration,
             gateAttempt, gcalls, loopExit, startIteration, buildPrompt>>

convVars == <<cStates, cThreshold, cResult>>

goalVars == <<runVars, convVars>>

procVars == <<state, configs, currentConfigs, cur, attempt, retriesUsed,
              resumeSessionId, sessionId, call, abandoned, hist, results,
              interrupted, verifyText>>

\* ----------------------------------------------------------- pure helpers
\* mutant: a key that does not depend on the content
taskHashConstant(prompt) == "0000"

taskHash(prompt) == IF prompt = "pA" THEN "4e1f" ELSE IF prompt = "pB" THEN "9c07" ELSE "0000"

EmptyMap == [k \in {} |-> None]

FreshState == [completed |-> EmptyMap, inProgress |-> None]

saveState(st) == Some(st)

IsCompleted(prompt, completed) == taskHash(prompt) \in DOMAIN completed

\* mutant: the filter never recognises a completed job
PendingIgnoresCompleted(cfgs, completed) == cfgs

Pending(cfgs, completed) == SelectSeq(cfgs, LAMBDA c : ~IsCompleted(c, completed))

RECURSIVE CollectResults(_, _)
CollectResults(cfgs, completed) ==
  IF cfgs = <<>> THEN <<>>
  ELSE LET rest == CollectResults(Tail(cfgs), completed)
       IN IF IsCompleted(Head(cfgs), completed)
          THEN <<completed[taskHash(Head(cfgs))]>> \o rest
          ELSE rest

ResumeHint(st, hash) ==
  IF st.inProgress # None /\ st.inProgress[1].hash = hash
  THEN st.inProgress[1].sessionId
  ELSE None

InProgressTask(hash, prompt, sid) == [hash |-> hash, prompt |-> prompt, sessionId |-> sid]

MarkInProgress(st, hash, prompt) ==
  [st EXCEPT !.inProgress = Some(InProgressTask(hash, prompt, None))]

onSessionId(st, hash, prompt, id) ==
  [st EXCEPT !.inProgress = Some(InProgressTask(hash, prompt, id))]

RecordResult(st, hash, result) ==
  [completed |-> [k \in DOMAIN st.completed \cup {hash} |->
                    IF k = hash THEN result ELSE st.completed[k]],
   inProgress |-> None]

\* mutant: the keyword classifier matches every error message
isRetryableErrorMatchesAll(kind) == TRUE

isRetryableError(kind) == kind \in {"retryable", "v_retryable"}

\* mutant: one retry fewer than retry_count
TimeoutRetryOffByOne(att, retryCount) == att + 1 < retryCount

TimeoutRetryAllowed(att, retryCount) == att < retryCount

ErrorRetryAllowed(kind, att, retryCount) == isRetryableError(kind) /\ att < retryCount

ShouldVerify(verify, sid) == verify /\ sid # None

JobResult(prompt, status, verified, retries) ==
  [task |-> prompt, status |-> status, verified |-> verified, retries |-> retries]

\* mutant: a job found in progress at start is recorded as failed, not resumed
loadStateInterruptedAsFailed ==
  IF stateFile = None THEN FreshState
  ELSE IF stateFile[1].inProgress = None THEN stateFile[1]
  ELSE RecordResult(stateFile[1], stateFile[1].inProgress[1].hash,
                    JobResult(stateFile[1].inProgress[1].prompt, "failed", FALSE, 0))

loadState == IF stateFile = None THEN FreshState ELSE stateFile[1]

\* the session id an Adapter call establishes
\* a result text is a sequence of words
\* String.prototype.toLowerCase on one word
LowerWord(w) ==
  IF w = "I" THEN "i"
  ELSE IF w \in {"CANNOT", "Cannot"} THEN "cannot"
  ELSE IF w \in {"FIX", "Fix"} THEN "fix"
  ELSE IF w = "Unable" THEN "unable"
  ELSE IF w = "To" THEN "to"
  ELSE IF w = "Blocked" THEN "blocked"
  ELSE IF w = "BY" THEN "by"
  ELSE IF w = "CI" THEN "ci"
  ELSE IF w = "Requires" THEN "requires"
  ELSE IF w = "MANUAL" THEN "manual"
  ELSE IF w = "All" THEN "all"
  ELSE w

toLowerCase(text) == [i \in DOMAIN text |-> LowerWord(text[i])]

\* String.prototype.includes: `phrase` occurs in `text` as a contiguous run
includes(text, phrase) ==
  \E i \in 1..(Len(text) - Len(phrase) + 1) :
    SubSeq(text, i, i + Len(phrase) - 1) = phrase

unfixableWords ==
  <<<<"cannot", "fix">>, <<"unable", "to">>, <<"blocked", "by">>, <<"requires", "manual">>>>

\* mutant: the response is searched as it is, not lower-cased
HasUnfixableCaseSensitive(text) ==
  /\ text # <<>>
  /\ \E k \in DOMAIN unfixableWords : includes(text, unfixableWords[k])

\* verifyResult.result && unfixableWords.some(w => result.toLowerCase().includes(w))
HasUnfixable(text) ==
  /\ text # <<>>
  /\ \E k \in DOMAIN unfixableWords : includes(toLowerCase(text), unfixableWords[k])

\* result texts of a verification pass: none, clean reports, each marker
\* phrase in some casing, and marker words that are not adjacent
VerifyResponses ==
  {<<>>,
   <<"All", "checks", "pass">>,
   <<"fixed", "it">>,
   <<"I", "CANNOT", "FIX", "it">>,
   <<"Unable", "To", "run", "tests">>,
   <<"tests", "blocked", "by", "CI">>,
   <<"Requires", "MANUAL", "review">>,
   <<"cannot", "run", "fix">>}

\* one clean report and one with a marker
BasicResponses == {<<"All", "checks", "pass">>, <<"I", "cannot", "fix", "it">>}

SessionOf(run, prompt, att, phase) == <<run, prompt, att, phase>>

\* fates the Adapter may show for the call in flight: a stream that ends
\* without a session needs that no init message was seen; a scripted Adapter
\* repeats what it showed before for the same job, attempt and pass
Fates(c, att) ==
  LET all == IF c.phase = "primary" THEN PrimaryFates ELSE VerifyFates
      key == <<c.prompt, att, c.phase>>
  IN IF scripted /\ script[key] # "unset"
     THEN {script[key]}
     ELSE {f \in all : f = "ok_nosession" => ~c.init}

Learn(prompt, att, phase, fate) ==
  IF scripted THEN [script EXCEPT ![<<prompt, att, phase>>] = fate] ELSE script

ScriptKeys == Prompts \X (0..MaxRetryCount) \X {"primary", "verify"}

\* the `hooks` option of a call: sdkOptions spreads securityHooks when
\* config.security is set (280, 288); verifyOptions has no hooks (348-355)
HooksOption(phase) == IF phase = "primary" THEN jobCfg.security ELSE FALSE

\* the text a resumed primary attempt sends instead of config.prompt (297)
ContinuationPrompt == "Continue where you left off. Complete the original task."

\* mutant: a resumed attempt sends the original prompt again
PromptTextOriginal(prompt, phase, resume) ==
  IF phase = "verify" THEN "verifyPrompt" ELSE prompt

\* the prompt text of a call: the primary pass sends the continuation prompt
\* when it resumes a session, else config.prompt (296-298); the verification
\* pass sends fixPrompt (358-359)
PromptText(prompt, phase, resume) ==
  IF phase = "verify" THEN "verifyPrompt"
  ELSE IF resume # None THEN ContinuationPrompt ELSE prompt

NewCall(prompt, att, phase, resume) ==
  Some([sid |-> SessionOf(runs, prompt, att, phase), hash |-> taskHash(prompt),
        prompt |-> prompt, phase |-> phase, init |-> FALSE, resume |-> resume,
        hooks |-> HooksOption(phase), text |-> PromptText(prompt, phase, resume)])

Abandon(c) ==
  IF ~c.init /\ Cardinality(abandoned) < MaxLate
  THEN abandoned \cup {[hash |-> c.hash, prompt |-> c.prompt, sid |-> c.sid]}
  ELSE abandoned

\* -------------------------------------------------------------------- Init
InitCommon ==
  /\ pc = "idle"
  /\ runs = 0
  /\ tasksFile \in {l \in JobLists : Len(l) > 0 /\ l[1] = "pA"}
  /\ edits = 0
  /\ stateFile = None
  /\ state = FreshState
  /\ configs = <<>>
  /\ currentConfigs = <<>>
  /\ cur = ""
  /\ attempt = 0
  /\ retriesUsed = 0
  /\ resumeSessionId = None
  /\ sessionId = None
  /\ call = None
  /\ abandoned = {}
  /\ hist = <<>>
  /\ results = <<>>
  /\ interrupted = ""
  /\ jobCfg \in [retry_count : 0..MaxRetryCount, verify : BOOLEAN, security : BOOLEAN]
  /\ claudePath \in BOOLEAN
  /\ script = [k \in ScriptKeys |-> "unset"]
  /\ verifyText = <<>>

\* ------------------------------------------------ goal-runner.ts: runGoal
\* An IterationState is kept as its iteration number, the length of
\* remaining_items and agent_done.
IterationState(n, remaining, done) ==
  [iteration |-> n, remaining |-> remaining, agent_done |-> done]

GoalConfigs ==
  [max_iterations : 1..MaxIterations, convergence_threshold : 0..MaxThreshold]

\* texts the build agent may answer with: no yaml block, a block that does
\* not parse, a block with remaining_items of some length and agent_done
BuildOutputs ==
  {[yaml |-> "none", remaining |-> 0, done |-> FALSE],
   [yaml |-> "invalid", remaining |-> 0, done |-> FALSE]}
  \cup [yaml : {"ok"}, remaining : 0..MaxRemaining, done : BOOLEAN]

\* parseIterationOutput: a missing or invalid block gives one synthetic
\* remaining item and agent_done = false
parseIterationOutput(output, n) ==
  IF output.yaml = "ok" THEN IterationState(n, output.remaining, output.done)
  ELSE IterationState(n, 1, FALSE)

\* Array.prototype.slice(-threshold): slice(-0) is slice(0), the whole array
SliceLast(states, threshold) ==
  IF threshold = 0 \/ threshold >= Len(states) THEN states
  ELSE SubSeq(states, Len(states) - threshold + 1, Len(states))

isConverging(states, threshold) ==
  IF Len(states) < threshold THEN TRUE
  ELSE LET recent == SliceLast(states, threshold)
           remainingCounts == [i \in DOMAIN recent |-> recent[i].remaining]
       IN \E i \in 2..Len(remainingCounts) : remainingCounts[i] < remainingCounts[i - 1]

FreshGoalState == [iterations |-> <<>>, gate_results |-> <<>>, status |-> "running"]

loadGoalState == IF goalStateFile = None THEN FreshGoalState ELSE goalStateFile[1]

saveGoalState(st) == Some(st)

\* the iteration state files: iteration-n-state.yaml holds the state written
\* last under the number n; loadPreviousIterationState gives None when no
\* file of that number exists. The narrative file is written together with
\* the state file and its text is never empty.
loadPreviousIterationState(n) ==
  LET written == {i \in DOMAIN iterWrites : iterWrites[i].iteration = n}
  IN IF written = {} THEN None
     ELSE Some(iterWrites[CHOOSE i \in written : \A j \in written : j <= i])

\* buildIterationPrompt: the prompt names the iteration and embeds the
\* previous state when one is given
buildIterationPrompt(n, previousState) ==
  [iteration |-> n, previous |-> previousState]

\* no build call was issued yet
NoPrompt == [iteration |-> 0, previous |-> None]

NoCalls == [build |-> 0, gate |-> 0, fix |-> 0]

\* isConverging is not under test
ConvIdle ==
  /\ cStates = <<>>
  /\ cThreshold = 0
  /\ cResult = None

\* no goal is run
GoalIdle ==
  /\ gpc = "off"
  /\ goalRuns = 0
  /\ goalCfg = [max_iterations |-> 1, convergence_threshold |-> 1]
  /\ runState = FreshGoalState
  /\ goalStateFile = None
  /\ iterWrites = <<>>
  /\ iteration = 0
  /\ gateAttempt = 0
  /\ gcalls = NoCalls
  /\ loopExit = ""
  /\ startIteration = 0
  /\ buildPrompt = NoPrompt



\* no tool call is looked at while the batch runner is
HookIdle ==
  /\ secCfg = [sandbox_dir |-> None, deny_patterns |-> None, audit_log |-> FALSE]
  /\ hookReq = None
  /\ hookIn = None
  /\ hookOut = None
  /\ auditFile = <<>>
  /\ toolUses = 0

\* the CLI configures a security policy unless --no-security is given
Init ==
  InitCommon /\ scripted = FALSE /\ responses = BasicResponses /\ jobCfg.security /\ HookIdle /\ GoalIdle /\ ConvIdle

InitScripted ==
  InitCommon /\ scripted = TRUE /\ responses = BasicResponses /\ jobCfg.security /\ HookIdle /\ GoalIdle /\ ConvIdle

\* with and without a security policy
InitPolicy ==
  InitCommon /\ scripted = FALSE /\ responses = BasicResponses /\ HookIdle /\ GoalIdle /\ ConvIdle

\* every kind of verification response; verification on
InitVerify ==
  /\ InitCommon
  /\ scripted = FALSE
  /\ responses = VerifyResponses
  /\ jobCfg.verify
  /\ jobCfg.security
  /\ HookIdle
  /\ GoalIdle
  /\ ConvIdle

envVars == <<jobCfg, claudePath, scripted, responses>>

\* ----------------------------------------------------------------- actions
\* the CLI parses the tasks file and calls runJobsWithState (lines 482-491)
Begin ==
  /\ pc \in {"idle", "done", "crashed"}
  /\ runs < MaxRuns
  /\ Len(tasksFile) > 0
  /\ runs' = runs + 1
  /\ state' = loadState
  /\ configs' = tasksFile
  /\ currentConfigs' = tasksFile
  /\ cur' = ""
  /\ attempt' = 0
  /\ retriesUsed' = 0
  /\ resumeSessionId' = None
  /\ sessionId' = None
  /\ call' = None
  /\ abandoned' = {}
  /\ hist' = <<>>
  /\ verifyText' = <<>>
  /\ results' = <<>>
  /\ interrupted' = IF loadState.inProgress = None THEN "" ELSE loadState.inProgress[1].hash
  /\ pc' = "loop"
  /\ UNCHANGED <<tasksFile, edits, stateFile, script>>
  /\ UNCHANGED envVars
  /\ UNCHANGED hookVars
  /\ UNCHANGED goalVars

\* loop top with a pending job: select it, mark it in progress, save (493-518)
SelectJob ==
  /\ pc = "loop"
  /\ Pending(currentConfigs, state.completed) # <<>>
  /\ LET config == Pending(currentConfigs, state.completed)[1]
         hash == taskHash(config)
     IN /\ cur' = config
        /\ resumeSessionId' = ResumeHint(state, hash)
        /\ state' = MarkInProgress(state, hash, config)
        /\ stateFile' = saveState(state')
  /\ attempt' = 0
  /\ retriesUsed' = 0
  /\ sessionId' = None
  /\ hist' = <<>>
  /\ verifyText' = <<>>
  /\ pc' = "marked"
  /\ UNCHANGED <<runs, tasksFile, edits, configs, currentConfigs, call, abandoned,
                 results, interrupted, script>>
  /\ UNCHANGED envVars
  /\ UNCHANGED hookVars
  /\ UNCHANGED goalVars

\* mutant: the loop is left and the checkpoint deleted with jobs pending
FinishWithPending ==
  /\ pc = "loop"
  /\ results' = CollectResults(currentConfigs, state.completed)
  /\ stateFile' = None
  /\ pc' = "done"
  /\ UNCHANGED <<runs, tasksFile, edits, state, configs, currentConfigs, cur,
                 attempt, retriesUsed, resumeSessionId, sessionId, call,
                 abandoned, hist, verifyText, interrupted, script>>
  /\ UNCHANGED envVars
  /\ UNCHANGED hookVars
  /\ UNCHANGED goalVars

\* loop top with nothing pending: collect the results, delete the checkpoint
\* (497, 551-559)
Finish ==
  /\ pc = "loop"
  /\ Pending(currentConfigs, state.completed) = <<>>
  /\ results' = CollectResults(currentConfigs, state.completed)
  /\ stateFile' = None
  /\ pc' = "done"
  /\ UNCHANGED <<runs, tasksFile, edits, state, configs, currentConfigs, cur,
                 attempt, retriesUsed, resumeSessionId, sessionId, call,
                 abandoned, hist, verifyText, interrupted, script>>
  /\ UNCHANGED envVars
  /\ UNCHANGED hookVars
  /\ UNCHANGED goalVars

\* runJob returned `result` (its locals are gone): record it, clear
\* inProgress, save (530-533)
Complete(result) ==
  /\ state' = RecordResult(state, taskHash(cur), result)
  /\ stateFile' = saveState(state')
  /\ attempt' = 0
  /\ retriesUsed' = 0
  /\ resumeSessionId' = None
  /\ sessionId' = None
  /\ call' = None
  /\ pc' = "saved"

\* issue the primary-pass Adapter call of attempt `att` (279-310)
IssuePrimary(att) ==
    /\ call' = NewCall(cur, att, "primary", resumeSessionId)
    /\ attempt' = att
    /\ sessionId' = None
    /\ pc' = "call"

\* issue the verification-pass Adapter call (345-368)
IssueVerify(sid) ==
    /\ call' = NewCall(cur, attempt, "verify", sid)
    /\ sessionId' = sid
    /\ pc' = "verify"

\* what the catch block of runJob does with an error that is not a
\* primary-pass timeout (416-443).  `sessionId` is declared inside the try
\* block (292), so reading it at 422 throws a ReferenceError out of runJob
\* and out of runJobsWithState.
CatchError(kind) ==
  IF ErrorRetryAllowed(kind, attempt, jobCfg.retry_count)
  THEN /\ pc' = "crashed"
       /\ call' = None
       /\ UNCHANGED <<state, stateFile, attempt, retriesUsed, resumeSessionId, sessionId>>
  ELSE Complete(JobResult(cur, "failed", FALSE, retriesUsed))

\* runJob without the executable returns failed at once (249-263)
RunJobNoExecutable ==
  /\ pc = "marked"
  /\ ~claudePath
  /\ Complete(JobResult(cur, "failed", FALSE, 0))
  /\ UNCHANGED <<runs, tasksFile, edits, configs, currentConfigs, cur, abandoned,
                 hist, verifyText, results, interrupted, script>>
  /\ UNCHANGED envVars
  /\ UNCHANGED hookVars
  /\ UNCHANGED goalVars

\* runJob issues the first primary call (236-310)
RunJobStart ==
  /\ pc = "marked"
  /\ claudePath
  /\ IssuePrimary(0)
  /\ UNCHANGED <<runs, tasksFile, edits, stateFile, state, configs, currentConfigs,
                 cur, retriesUsed, resumeSessionId, abandoned, hist, verifyText, results, interrupted, script>>
  /\ UNCHANGED envVars
  /\ UNCHANGED hookVars
  /\ UNCHANGED goalVars

\* the system init message of the call in flight arrives (210-217, 305-308,
\* 363-366, 522-526)
InitMsg ==
  /\ pc \in {"call", "verify"}
  /\ ~call[1].init
  /\ ~(scripted /\ script[<<cur, attempt, call[1].phase>>] = "ok_nosession")
  /\ sessionId' = call[1].sid
  /\ state' = onSessionId(state, taskHash(cur), cur, call[1].sid)
  /\ stateFile' = saveState(state')
  /\ call' = Some([call[1] EXCEPT !.init = TRUE])
  /\ UNCHANGED <<pc, runs, tasksFile, edits, configs, currentConfigs, cur, attempt,
                 retriesUsed, resumeSessionId, abandoned, hist, verifyText, results, interrupted, script>>
  /\ UNCHANGED envVars
  /\ UNCHANGED hookVars
  /\ UNCHANGED goalVars

\* the primary call returns (311-313); then the verification pass is issued
\* or runJob returns success (345-347, 405-415)
PrimaryOk ==
  /\ pc = "call"
  /\ \E fate \in Fates(call[1], attempt) \cap {"ok", "ok_nosession"} :
       /\ hist' = Append(hist, fate)
       /\ UNCHANGED verifyText
       /\ script' = Learn(cur, attempt, "primary", fate)
       /\ LET sid == IF fate = "ok" THEN call[1].sid ELSE None
          IN IF ShouldVerify(jobCfg.verify, sid)
             THEN /\ IssueVerify(sid)
                  /\ UNCHANGED <<state, stateFile, attempt, retriesUsed, resumeSessionId>>
             ELSE Complete(JobResult(cur, "success", jobCfg.verify, retriesUsed))
  /\ UNCHANGED <<runs, tasksFile, edits, configs, currentConfigs, cur, abandoned,
                 results, interrupted>>
  /\ UNCHANGED envVars
  /\ UNCHANGED hookVars
  /\ UNCHANGED goalVars

\* mutant: a primary-pass timeout that is retried does not count the retry
PrimaryTimeoutUncounted ==
  /\ pc = "call"
  /\ "timeout" \in Fates(call[1], attempt)
  /\ hist' = Append(hist, "timeout")
  /\ UNCHANGED verifyText
  /\ script' = Learn(cur, attempt, "primary", "timeout")
  /\ abandoned' = Abandon(call[1])
  /\ IF TimeoutRetryAllowed(attempt, jobCfg.retry_count)
     THEN /\ resumeSessionId' = IF sessionId # None THEN sessionId ELSE resumeSessionId
          /\ call' = None
          /\ pc' = "backoff"
          /\ UNCHANGED <<state, stateFile, attempt, sessionId, retriesUsed>>
     ELSE Complete(JobResult(cur, "timeout", FALSE, retriesUsed))
  /\ UNCHANGED <<runs, tasksFile, edits, configs, currentConfigs, cur, results, interrupted>>
  /\ UNCHANGED envVars
  /\ UNCHANGED hookVars
  /\ UNCHANGED goalVars

\* the timer wins the race of runWithTimeout (131-148, 314-341); the call is
\* abandoned, not cancelled
PrimaryTimeout ==
  /\ pc = "call"
  /\ "timeout" \in Fates(call[1], attempt)
  /\ hist' = Append(hist, "timeout")
  /\ UNCHANGED verifyText
  /\ script' = Learn(cur, attempt, "primary", "timeout")
  /\ abandoned' = Abandon(call[1])
  /\ IF TimeoutRetryAllowed(attempt, jobCfg.retry_count)
     THEN /\ retriesUsed' = attempt + 1
          /\ resumeSessionId' = IF sessionId # None THEN sessionId ELSE resumeSessionId
          /\ call' = None
          /\ pc' = "backoff"
          /\ UNCHANGED <<state, stateFile, attempt, sessionId>>
     ELSE Complete(JobResult(cur, "timeout", FALSE, retriesUsed))
  /\ UNCHANGED <<runs, tasksFile, edits, configs, currentConfigs, cur, results, interrupted>>
  /\ UNCHANGED envVars
  /\ UNCHANGED hookVars
  /\ UNCHANGED goalVars

\* the primary call fails with an error other than TIMEOUT (342, 416-443)
PrimaryError ==
  /\ pc = "call"
  /\ \E fate \in Fates(call[1], attempt) \cap {"retryable", "fatal"} :
       /\ hist' = Append(hist, fate)
       /\ UNCHANGED verifyText
       /\ script' = Learn(cur, attempt, "primary", fate)
       /\ CatchError(fate)
  /\ UNCHANGED <<runs, tasksFile, edits, configs, currentConfigs, cur, abandoned,
                 results, interrupted>>
  /\ UNCHANGED envVars
  /\ UNCHANGED hookVars
  /\ UNCHANGED goalVars

\* the backoff sleep ends and the next attempt is issued (327-328, 277-310)
Retry ==
  /\ pc = "backoff"
  /\ IssuePrimary(attempt + 1)
  /\ UNCHANGED <<runs, tasksFile, edits, stateFile, state, configs, currentConfigs,
                 cur, retriesUsed, resumeSessionId, abandoned, hist, verifyText, results, interrupted, script>>
  /\ UNCHANGED envVars
  /\ UNCHANGED hookVars
  /\ UNCHANGED goalVars

\* the verification call returns (369-394, 405-415)
VerifyOk ==
  /\ pc = "verify"
  /\ \E text \in responses :
       LET fate == IF HasUnfixable(text) THEN "v_unfixable" ELSE "v_ok"
       IN /\ fate \in Fates(call[1], attempt)
          /\ hist' = Append(hist, fate)
          /\ script' = Learn(cur, attempt, "verify", fate)
          /\ verifyText' = text
          /\ IF HasUnfixable(text)
             THEN Complete(JobResult(cur, "verification_failed", FALSE, retriesUsed))
             ELSE Complete(JobResult(cur, "success", jobCfg.verify, retriesUsed))
  /\ UNCHANGED <<runs, tasksFile, edits, configs, currentConfigs, cur, abandoned,
                 results, interrupted>>
  /\ UNCHANGED envVars
  /\ UNCHANGED hookVars
  /\ UNCHANGED goalVars

\* mutant: a verification timeout is handled like a primary-pass timeout
VerifyTimeoutRetried ==
  /\ pc = "verify"
  /\ "v_timeout" \in Fates(call[1], attempt)
  /\ hist' = Append(hist, "v_timeout")
  /\ UNCHANGED verifyText
  /\ script' = Learn(cur, attempt, "verify", "v_timeout")
  /\ abandoned' = Abandon(call[1])
  /\ IF TimeoutRetryAllowed(attempt, jobCfg.retry_count)
     THEN /\ retriesUsed' = attempt + 1
          /\ resumeSessionId' = sessionId
          /\ call' = None
          /\ pc' = "backoff"
          /\ UNCHANGED <<state, stateFile, attempt, sessionId>>
     ELSE Complete(JobResult(cur, "timeout", FALSE, retriesUsed))
  /\ UNCHANGED <<runs, tasksFile, edits, configs, currentConfigs, cur, results, interrupted>>
  /\ UNCHANGED envVars
  /\ UNCHANGED hookVars
  /\ UNCHANGED goalVars

\* the verification call times out: tolerated (395-398, 405-415)
VerifyTimeout ==
  /\ pc = "verify"
  /\ "v_timeout" \in Fates(call[1], attempt)
  /\ hist' = Append(hist, "v_timeout")
  /\ UNCHANGED verifyText
  /\ script' = Learn(cur, attempt, "verify", "v_timeout")
  /\ abandoned' = Abandon(call[1])
  /\ Complete(JobResult(cur, "success", jobCfg.verify, retriesUsed))
  /\ UNCHANGED <<runs, tasksFile, edits, configs, currentConfigs, cur, results, interrupted>>
  /\ UNCHANGED envVars
  /\ UNCHANGED hookVars
  /\ UNCHANGED goalVars

\* the verification call fails with another error (399-401, 416-443)
VerifyError ==
  /\ pc = "verify"
  /\ \E fate \in Fates(call[1], attempt) \cap {"v_retryable", "v_fatal"} :
       /\ hist' = Append(hist, fate)
       /\ UNCHANGED verifyText
       /\ script' = Learn(cur, attempt, "verify", fate)
       /\ CatchError(fate)
  /\ UNCHANGED <<runs, tasksFile, edits, configs, currentConfigs, cur, abandoned,
                 results, interrupted>>
  /\ UNCHANGED envVars
  /\ UNCHANGED hookVars
  /\ UNCHANGED goalVars

\* mutant: a reload that throws leaves an empty job list
ReloadFailureEmpties ==
  /\ pc = "saved"
  /\ \E ok \in BOOLEAN :
       /\ currentConfigs' = IF ok THEN tasksFile ELSE <<>>
       /\ pc' = IF Pending(currentConfigs', state.completed) # <<>> THEN "pause" ELSE "loop"
  /\ cur' = ""
  /\ hist' = <<>>
  /\ verifyText' = <<>>
  /\ UNCHANGED <<runs, tasksFile, edits, stateFile, state, configs, attempt,
                 retriesUsed, resumeSessionId, sessionId, call, abandoned,
                 results, interrupted, script>>
  /\ UNCHANGED envVars
  /\ UNCHANGED hookVars
  /\ UNCHANGED goalVars

\* after the completion save: reload the job list, keep the old one when the
\* reload throws, and pause if something is pending (535-548)
Reload ==
  /\ pc = "saved"
  /\ \E ok \in BOOLEAN :
       /\ currentConfigs' = IF ok THEN tasksFile ELSE currentConfigs
       /\ pc' = IF Pending(currentConfigs', state.completed) # <<>> THEN "pause" ELSE "loop"
  /\ cur' = ""
  /\ hist' = <<>>
  /\ verifyText' = <<>>
  /\ UNCHANGED <<runs, tasksFile, edits, stateFile, state, configs, attempt,
                 retriesUsed, resumeSessionId, sessionId, call, abandoned,
                 results, interrupted, script>>
  /\ UNCHANGED envVars
  /\ UNCHANGED hookVars
  /\ UNCHANGED goalVars

\* the pause between jobs ends (547)
PauseDone ==
  /\ pc = "pause"
  /\ pc' = "loop"
  /\ UNCHANGED <<runs, tasksFile, edits, stateFile, state, configs, currentConfigs,
                 cur, attempt, retriesUsed, resumeSessionId, sessionId, call,
                 abandoned, hist, verifyText, results, interrupted, script>>
  /\ UNCHANGED envVars
  /\ UNCHANGED hookVars
  /\ UNCHANGED goalVars

\* an abandoned call delivers its init message while the runner awaits
\* something else: the callback of the abandoned job's closure runs (215,
\* 305-308, 522-526); with state.inProgress undefined line 524 throws before
\* it assigns, and the rejection is swallowed by the settled race
LateInit ==
  /\ pc \in {"call", "verify", "backoff", "pause"}
  /\ \E c \in abandoned :
       /\ abandoned' = abandoned \ {c}
       /\ IF state.inProgress # None
          THEN /\ state' = onSessionId(state, c.hash, c.prompt, c.sid)
               /\ stateFile' = saveState(state')
          ELSE UNCHANGED <<state, stateFile>>
  /\ UNCHANGED <<pc, runs, tasksFile, edits, configs, currentConfigs, cur, attempt,
                 retriesUsed, resumeSessionId, sessionId, call, hist, verifyText, results, interrupted, script>>
  /\ UNCHANGED envVars
  /\ UNCHANGED hookVars
  /\ UNCHANGED goalVars

\* the process is killed: memory is lost, the checkpoint file stays
Kill ==
  /\ pc \in {"loop", "marked", "call", "backoff", "verify", "saved", "pause"}
  /\ pc' = "idle"
  /\ state' = FreshState
  /\ configs' = <<>>
  /\ currentConfigs' = <<>>
  /\ cur' = ""
  /\ attempt' = 0
  /\ retriesUsed' = 0
  /\ resumeSessionId' = None
  /\ sessionId' = None
  /\ call' = None
  /\ abandoned' = {}
  /\ hist' = <<>>
  /\ verifyText' = <<>>
  /\ results' = <<>>
  /\ interrupted' = ""
  /\ UNCHANGED <<runs, tasksFile, edits, stateFile, script>>
  /\ UNCHANGED envVars
  /\ UNCHANGED hookVars
  /\ UNCHANGED goalVars

\* the user edits the tasks file; the file is read by Begin and by Reload
\* only, so an edit is taken right before one of them (an edit before the
\* first start is a different initial file)
EditTasksFile ==
  /\ pc = "saved" \/ (pc = "idle" /\ runs > 0)
  /\ edits < MaxEdits
  /\ edits' = edits + 1
  /\ tasksFile' \in JobLists \ {tasksFile}
  /\ UNCHANGED <<pc, runs, stateFile, script>>
  /\ UNCHANGED procVars
  /\ UNCHANGED envVars
  /\ UNCHANGED hookVars
  /\ UNCHANGED goalVars

Next ==
  \/ Begin
  \/ SelectJob
  \/ Finish
  \/ RunJobNoExecutable
  \/ RunJobStart
  \/ InitMsg
  \/ PrimaryOk
  \/ PrimaryTimeout
  \/ PrimaryError
  \/ Retry
  \/ VerifyOk
  \/ VerifyTimeout
  \/ VerifyError
  \/ Reload
  \/ PauseDone
  \/ LateInit
  \/ Kill
  \/ EditTasksFile

Spec == Init /\ [][Next]_vars

\* restarts with the same jobs: the tasks file is not edited
NextSameJobs ==
  \/ Begin
  \/ SelectJob
  \/ Finish
  \/ RunJobNoExecutable
  \/ RunJobStart
  \/ InitMsg
  \/ PrimaryOk
  \/ PrimaryTimeout
  \/ PrimaryError
  \/ Retry
  \/ VerifyOk
  \/ VerifyTimeout
  \/ VerifyError
  \/ Reload
  \/ PauseDone
  \/ LateInit
  \/ Kill

SpecScripted == InitScripted /\ [][NextSameJobs]_vars

\* any Adapter, the tasks file left as it was
SpecSameJobs == Init /\ [][NextSameJobs]_vars

\* with and without a security policy, the tasks file left as it was
SpecPolicy == InitPolicy /\ [][NextSameJobs]_vars

\* any verification response, the tasks file left as it was
SpecVerify == InitVerify /\ [][NextSameJobs]_vars

\* ------------------------------------------------ security.ts: the hooks
\* Strings of security.ts are sequences of characters.

\* DEFAULT_DENY_PATTERNS of types.ts
DEFAULT_DENY_PATTERNS ==
  <<<<"*", "*", "/", ".", "e", "n", "v">>,
    <<"*", "*", "/", ".", "e", "n", "v", ".", "*">>,
    <<"*", "*", "/", ".", "g", "i", "t", "/", "c", "o", "n", "f", "i", "g">>,
    <<"*", "*", "/", "c", "r", "e", "d", "e", "n", "t", "i", "a", "l", "s", "*">>,
    <<"*", "*", "/", "*", ".", "k", "e", "y">>,
    <<"*", "*", "/", "*", ".", "p", "e", "m">>,
    <<"*", "*", "/", "*", ".", "p", "1", "2">>,
    <<"*", "*", "/", "i", "d", "_", "r", "s", "a", "*">>,
    <<"*", "*", "/", "i", "d", "_", "e", "d", "2", "5", "5", "1", "9", "*">>,
    <<"*", "*", "/", ".", "s", "s", "h", "/", "*">>,
    <<"*", "*", "/", ".", "a", "w", "s", "/", "*">>,
    <<"*", "*", "/", ".", "n", "p", "m", "r", "c">>,
    <<"*", "*", "/", ".", "n", "e", "t", "r", "c">>>>

\* process.cwd() of the runner: "/w"
Cwd == <<"/", "w">>

\* paths tools are called with
PathEnv == <<".", "e", "n", "v">>
PathSubEnv == <<"a", "/", ".", "e", "n", "v">>
PathBackslashEnv == <<"a", "\\", ".", "e", "n", "v">>
PathEnvX == <<".", "e", "n", "v", ".", "x">>
PathAbsPem == <<"/", "w", "/", "k", ".", "p", "e", "m">>
PathParentEscape == <<".", ".", "/", "o", "/", "f">>
PathAbsOutside == <<"/", "e", "t", "c", "/", "x">>
PathDotDotName == <<".", ".", "x">>
PathSrcApp == <<"s", "/", "a", ".", "t", "s">>
PathInnerEscape == <<"s", "/", ".", ".", "/", ".", ".", "/", "o">>
PathAbsInside == <<"/", "w", "/", "s", "/", "a", ".", "t", "s">>

ToolPaths ==
  {PathEnv, PathSubEnv, PathBackslashEnv, PathEnvX, PathAbsPem, PathParentEscape,
   PathAbsOutside, PathDotDotName, PathSrcApp, PathInnerEscape, PathAbsInside, <<>>}

\* sandbox_dir values: unset, ".", "s", "/w/s"
SandboxDirs == {None, Some(<<".">>), Some(<<"s">>), Some(<<"/", "w", "/", "s">>)}

\* deny_patterns values: the default, none, two overlapping patterns
\* ("*.ts", "s/*"), and a pattern with a leading slash ("/etc/*")
DenyLists ==
  {DEFAULT_DENY_PATTERNS,
   <<>>,
   <<<<"*", ".", "t", "s">>, <<"s", "/", "*">>>>,
   <<<<"/", "e", "t", "c", "/", "*">>>>}

\* filePath.replace(/\\/g, "/")
NormalizeSlashes(filePath) ==
  [i \in DOMAIN filePath |-> IF filePath[i] = "\\" THEN "/" ELSE filePath[i]]

\* The four replace calls of matchesPattern turn the glob into a regular
\* expression, here a sequence of tokens: "any" is ".*", "seg" is "[^/]*",
\* every other character (a dot is escaped) matches itself.
RECURSIVE GlobToRegex(_)
GlobToRegex(pattern) ==
  IF pattern = <<>> THEN <<>>
  ELSE IF Len(pattern) >= 2 /\ pattern[1] = "*" /\ pattern[2] = "*"
    THEN <<[t |-> "any", c |-> ""]>> \o GlobToRegex(SubSeq(pattern, 3, Len(pattern)))
  ELSE IF pattern[1] = "*"
    THEN <<[t |-> "seg", c |-> ""]>> \o GlobToRegex(Tail(pattern))
  ELSE <<[t |-> "lit", c |-> pattern[1]]>> \o GlobToRegex(Tail(pattern))

\* the regular expression `regex` followed by "$" matches `path` from
\* position `pos` to its end
RECURSIVE MatchToEnd(_, _, _)
MatchToEnd(regex, path, pos) ==
  IF regex = <<>> THEN pos = Len(path) + 1
  ELSE IF regex[1].t = "lit"
    THEN /\ pos <= Len(path)
         /\ path[pos] = regex[1].c
         /\ MatchToEnd(Tail(regex), path, pos + 1)
  ELSE \E next \in pos..(Len(path) + 1) :
         /\ regex[1].t = "seg" => \A i \in pos..(next - 1) : path[i] # "/"
         /\ MatchToEnd(Tail(regex), path, next)

\* new RegExp(regex + "$").test(normalizedPath): the search may start at any
\* position; "(^|/)" is prepended unless the pattern starts with "/"
matchesPattern(filePath, pattern) ==
  LET normalizedPath == NormalizeSlashes(filePath)
      regex == GlobToRegex(pattern)
      starts == IF pattern # <<>> /\ pattern[1] = "/"
                THEN 1..(Len(normalizedPath) + 1)
                ELSE {1} \cup {i + 1 : i \in {j \in DOMAIN normalizedPath : normalizedPath[j] = "/"}}
  IN \E start \in starts : MatchToEnd(regex, normalizedPath, start)

\* first pattern of the list that matches, or None
isPathDenied(filePath, denyPatterns) ==
  IF \E k \in DOMAIN denyPatterns : matchesPattern(filePath, denyPatterns[k])
  THEN Some(denyPatterns[CHOOSE k \in DOMAIN denyPatterns :
                           /\ matchesPattern(filePath, denyPatterns[k])
                           /\ \A j \in 1..(k - 1) : ~matchesPattern(filePath, denyPatterns[j])])
  ELSE None

\* path.isAbsolute (POSIX)
isAbsolute(p) == p # <<>> /\ p[1] = "/"

\* the segments of a path string, split at "/"
RECURSIVE SplitPath(_)
SplitPath(p) ==
  IF \A i \in DOMAIN p : p[i] # "/" THEN <<p>>
  ELSE LET i == CHOOSE k \in DOMAIN p : p[k] = "/" /\ \A j \in 1..(k - 1) : p[j] # "/"
       IN <<SubSeq(p, 1, i - 1)>> \o SplitPath(SubSeq(p, i + 1, Len(p)))

\* path normalisation: "" and "." segments are dropped, ".." removes the
\* segment before it (nothing at the root)
RECURSIVE NormalizeSegments(_, _)
NormalizeSegments(segs, acc) ==
  IF segs = <<>> THEN acc
  ELSE IF segs[1] \in {<<>>, <<".">>} THEN NormalizeSegments(Tail(segs), acc)
  ELSE IF segs[1] = <<".", ".">>
    THEN NormalizeSegments(Tail(segs), IF acc = <<>> THEN acc ELSE SubSeq(acc, 1, Len(acc) - 1))
  ELSE NormalizeSegments(Tail(segs), Append(acc, segs[1]))

\* path.resolve(from, to) with `from` absolute: the segments of the
\* absolute path
resolve(from, to) ==
  IF isAbsolute(to) THEN NormalizeSegments(SplitPath(to), <<>>)
  ELSE NormalizeSegments(SplitPath(from) \o SplitPath(to), <<>>)

RECURSIVE JoinPath(_)
JoinPath(segs) ==
  IF segs = <<>> THEN <<>>
  ELSE IF Len(segs) = 1 THEN segs[1]
  ELSE segs[1] \o <<"/">> \o JoinPath(Tail(segs))

RECURSIVE CommonPrefixLen(_, _)
CommonPrefixLen(a, b) ==
  IF a = <<>> \/ b = <<>> \/ a[1] # b[1] THEN 0
  ELSE 1 + CommonPrefixLen(Tail(a), Tail(b))

\* path.relative(from, to) of two absolute paths given by their segments:
\* one ".." per segment of `from` after the common prefix, then the rest of
\* `to`; the result is a string
relative(from, to) ==
  LET c == CommonPrefixLen(from, to)
  IN JoinPath([i \in 1..(Len(from) - c) |-> <<".", ".">>] \o SubSeq(to, c + 1, Len(to)))

\* String.prototype.startsWith
startsWith(s, prefix) == Len(s) >= Len(prefix) /\ SubSeq(s, 1, Len(prefix)) = prefix

isPathWithinSandbox(filePath, sandboxDir) ==
  LET absolutePath == resolve(Cwd, filePath)
      absoluteSandbox == resolve(Cwd, sandboxDir)
      relativePath == relative(absoluteSandbox, absolutePath)
  IN ~startsWith(relativePath, <<".", ".">>) /\ ~isAbsolute(relativePath)

FileTools == {"Read", "Write", "Edit", "Glob", "Grep"}

BashCommands == {"cat .env", "rm -rf ../o"}

\* inputs of the hooks: tool_input.file_path (Read, Write, Edit),
\* tool_input.path (Glob, Grep) or tool_input.command (Bash) is `arg`
ToolInputs ==
  [tool_name : FileTools, arg : ToolPaths] \cup [tool_name : {"Bash"}, arg : BashCommands]

SecurityConfigs ==
  [sandbox_dir : SandboxDirs, deny_patterns : {None} \cup {Some(l) : l \in DenyLists},
   audit_log : BOOLEAN]

\* the denial preToolUseHook returns, with the parts of its reason
Deny(kind, filePath, cited) ==
  Some([permissionDecision |-> "deny", kind |-> kind, path |-> filePath, cited |-> cited])

\* lines 77-102 of preToolUseHook for a tool with a path: the denial, or
\* None for {}
CheckPath(config, filePath) ==
  LET sandboxDir == config.sandbox_dir
      denyPatterns == IF config.deny_patterns = None THEN DEFAULT_DENY_PATTERNS
                      ELSE config.deny_patterns[1]
      matchedPattern == isPathDenied(filePath, denyPatterns)
  IN IF filePath = <<>> THEN None
     ELSE IF sandboxDir # None /\ ~isPathWithinSandbox(filePath, sandboxDir[1])
       THEN Deny("sandbox", filePath, sandboxDir[1])
     ELSE IF matchedPattern # None
       THEN Deny("pattern", filePath, matchedPattern[1])
     ELSE None

\* CheckPath as a table over the configurations and paths looked at, computed
\* once (@@ builds the table)
CheckPathOf ==
  [config \in SecurityConfigs, filePath \in ToolPaths |-> CheckPath(config, filePath)] @@ <<>>

\* mutant: a Bash command is checked like a path and never logged
preToolUseHookBashAsPath(config, event, input, file, ts) ==
  IF event # "PreToolUse" THEN [out |-> None, file |-> file]
  ELSE IF input.tool_name = "Bash"
    THEN [out |-> IF config.sandbox_dir # None
                  THEN Deny("sandbox", input.arg, config.sandbox_dir[1]) ELSE None,
          file |-> file]
  ELSE [out |-> CheckPathOf[config, input.arg], file |-> file]

\* preToolUseHook of createSecurityHooks(config), called at time `ts` with
\* the audit file holding `file`: its return value ({} is None) and the
\* audit file afterwards
preToolUseHook(config, event, input, file, ts) ==
  IF event # "PreToolUse" THEN [out |-> None, file |-> file]
  ELSE IF input.tool_name = "Bash"
    THEN [out |-> None,
          file |-> IF config.audit_log
                   THEN Append(file, [ts |-> ts, tag |-> "BASH", text |-> input.arg])
                   ELSE file]
  ELSE IF input.tool_name \notin FileTools
    THEN [out |-> None, file |-> file]
  ELSE [out |-> CheckPathOf[config, input.arg], file |-> file]

\* postToolUseHook: the audit file afterwards
postToolUseHook(config, event, input, file, ts) ==
  IF ~config.audit_log \/ event # "PostToolUse" THEN file
  ELSE Append(file, [ts |-> ts, tag |-> input.tool_name,
                     text |-> IF input.tool_name \in {"Read", "Write", "Edit", "Glob"}
                              THEN input.arg ELSE <<>>])

\* the state of the batch runner while the hooks are looked at alone
BatchIdle ==
  /\ InitCommon
  /\ tasksFile = <<"pA">>
  /\ jobCfg = [retry_count |-> 0, verify |-> TRUE, security |-> TRUE]
  /\ claudePath
  /\ scripted = FALSE
  /\ responses = BasicResponses

InitHooks ==
  /\ BatchIdle
  /\ GoalIdle
  /\ ConvIdle
  /\ secCfg \in SecurityConfigs
  /\ hookReq = None
  /\ hookIn = None
  /\ hookOut = None
  /\ auditFile = <<>>
  /\ toolUses = 0

\* the agent asks for a tool: the PreToolUse hook runs; the tool executes
\* unless the hook denies
PreToolUse ==
  /\ hookReq = None
  /\ toolUses < MaxToolUses
  /\ \E input \in ToolInputs :
       LET r == preToolUseHook(secCfg, "PreToolUse", input, auditFile, 2 * toolUses)
       IN /\ hookIn' = Some(input)
          /\ hookOut' = r.out
          /\ auditFile' = r.file
          /\ hookReq' = IF r.out = None THEN Some(input) ELSE None
  /\ toolUses' = toolUses + 1
  /\ UNCHANGED secCfg
  /\ UNCHANGED batchVars
  /\ UNCHANGED goalVars

\* the tool has executed: the PostToolUse hook runs
PostToolUse ==
  /\ hookReq # None
  /\ auditFile' = postToolUseHook(secCfg, "PostToolUse", hookReq[1], auditFile, 2 * toolUses - 1)
  /\ hookReq' = None
  /\ UNCHANGED <<secCfg, hookIn, hookOut, toolUses>>
  /\ UNCHANGED batchVars
  /\ UNCHANGED goalVars

NextHooks ==
  \/ PreToolUse
  \/ PostToolUse

SpecHooks == InitHooks /\ [][NextHooks]_vars

\* ---------------------------------------------- goal-runner.ts: actions
maxGateAttempts == 3

InitGoal ==
  /\ BatchIdle
  /\ HookIdle
  /\ gpc = "idle"
  /\ goalRuns = 0
  /\ goalCfg \in GoalConfigs
  /\ runState = FreshGoalState
  /\ goalStateFile = None
  /\ iterWrites = <<>>
  /\ iteration = 0
  /\ gateAttempt = 0
  /\ gcalls = NoCalls
  /\ loopExit = ""
  /\ startIteration = 0
  /\ buildPrompt = NoPrompt
  /\ ConvIdle

\* runGoal is called: load or create the state (451-474)
GoalBegin ==
  /\ gpc \in {"idle", "returned"}
  /\ goalRuns < MaxGoalRuns
  /\ goalRuns' = goalRuns + 1
  /\ runState' = loadGoalState
  /\ startIteration' = Len(loadGoalState.iterations) + 1
  /\ iteration' = startIteration'
  /\ buildPrompt' = NoPrompt
  /\ gateAttempt' = 0
  /\ gcalls' = NoCalls
  /\ loopExit' = ""
  /\ gpc' = "loop"
  /\ UNCHANGED <<goalCfg, goalStateFile, iterWrites>>
  /\ UNCHANGED <<batchVars, hookVars, convVars>>

\* top of the build loop: leave at maxIterations, stop when stalled, else
\* build the prompt from the files of iteration - 1 and issue the build
\* call of this iteration (476-494)
LoopCheck ==
  /\ gpc = "loop"
  /\ IF iteration > goalCfg.max_iterations
     THEN /\ loopExit' = "max"
          /\ gpc' = "afterLoop"
          /\ UNCHANGED <<runState, goalStateFile, gcalls, buildPrompt>>
     ELSE IF ~isConverging(runState.iterations, goalCfg.convergence_threshold)
     THEN /\ runState' = [runState EXCEPT !.status = "stalled"]
          /\ goalStateFile' = saveGoalState(runState')
          /\ loopExit' = "stalled"
          /\ gpc' = "afterLoop"
          /\ UNCHANGED <<gcalls, buildPrompt>>
     ELSE /\ LET prevState == IF iteration > 1
                               THEN loadPreviousIterationState(iteration - 1)
                               ELSE None
             IN buildPrompt' = buildIterationPrompt(iteration, prevState)
          /\ gcalls' = [gcalls EXCEPT !.build = @ + 1]
          /\ gpc' = "build"
          /\ UNCHANGED <<runState, goalStateFile, loopExit>>
  /\ UNCHANGED <<goalRuns, goalCfg, startIteration, iterWrites, iteration, gateAttempt>>
  /\ UNCHANGED <<batchVars, hookVars, convVars>>

\* the build call throws or ends without a result (499-502, 528-539)
BuildFails ==
  /\ gpc = "build"
  /\ iteration' = iteration + 1
  /\ gpc' = "loop"
  /\ UNCHANGED <<goalRuns, goalCfg, startIteration, buildPrompt, runState, goalStateFile, iterWrites, gateAttempt,
                 gcalls, loopExit>>
  /\ UNCHANGED <<batchVars, hookVars, convVars>>

\* the build call returns a text: parse it, write the iteration files,
\* record the iteration, save the goal state, and leave the loop if the
\* agent reports done (505-526)
BuildReturns ==
  /\ gpc = "build"
  /\ \E output \in BuildOutputs :
       LET iterState == parseIterationOutput(output, iteration)
       IN /\ iterWrites' = Append(iterWrites, iterState)
          /\ runState' = [runState EXCEPT !.iterations = Append(@, iterState)]
          /\ goalStateFile' = saveGoalState(runState')
          /\ IF iterState.agent_done
             THEN /\ loopExit' = "done"
                  /\ gpc' = "afterLoop"
                  /\ UNCHANGED iteration
             ELSE /\ iteration' = iteration + 1
                  /\ gpc' = "loop"
                  /\ UNCHANGED loopExit
  /\ UNCHANGED <<goalRuns, goalCfg, startIteration, buildPrompt, gateAttempt, gcalls>>
  /\ UNCHANGED <<batchVars, hookVars, convVars>>

\* after the loop: the gate runs only while the status is running (545-548)
AfterLoop ==
  /\ gpc = "afterLoop"
  /\ IF runState.status = "running"
     THEN gateAttempt' = 1 /\ gpc' = "gateTop"
     ELSE gpc' = "tail" /\ UNCHANGED gateAttempt
  /\ UNCHANGED <<goalRuns, goalCfg, startIteration, buildPrompt, runState, goalStateFile, iterWrites, iteration,
                 gcalls, loopExit>>
  /\ UNCHANGED <<batchVars, hookVars, convVars>>

\* top of the gate loop: issue the gate call of this attempt (548-565)
GateTop ==
  /\ gpc = "gateTop"
  /\ IF gateAttempt <= maxGateAttempts
     THEN gcalls' = [gcalls EXCEPT !.gate = @ + 1] /\ gpc' = "gate"
     ELSE gpc' = "tail" /\ UNCHANGED gcalls
  /\ UNCHANGED <<goalRuns, goalCfg, startIteration, buildPrompt, runState, goalStateFile, iterWrites, iteration,
                 gateAttempt, loopExit>>
  /\ UNCHANGED <<batchVars, hookVars, convVars>>

\* the gate call throws or ends without a result (568-571, 625-628)
GateFails ==
  /\ gpc = "gate"
  /\ gateAttempt' = gateAttempt + 1
  /\ gpc' = "gateTop"
  /\ UNCHANGED <<goalRuns, goalCfg, startIteration, buildPrompt, runState, goalStateFile, iterWrites, iteration,
                 gcalls, loopExit>>
  /\ UNCHANGED <<batchVars, hookVars, convVars>>

\* verdicts the gate agent may answer with; a text without a verdict block
\* parses as not passed
GateOutputs == {"passed", "failed", "none"}

parseGateOutput(output) == [passed |-> output = "passed"]

\* the gate loop does not stop at a passing verdict
GateReturnsNoBreak ==
  /\ gpc = "gate"
  /\ \E output \in GateOutputs :
       LET gateResult == parseGateOutput(output)
           recorded == [runState EXCEPT !.gate_results = Append(@, gateResult)]
       IN /\ runState' = [recorded EXCEPT !.status =
                            IF gateResult.passed THEN "gate_passed" ELSE "gate_failed"]
          /\ goalStateFile' = saveGoalState(runState')
          /\ gateAttempt' = gateAttempt + 1
          /\ gpc' = "gateTop"
          /\ UNCHANGED gcalls
  /\ UNCHANGED <<goalRuns, goalCfg, startIteration, buildPrompt, iterWrites, iteration, loopExit>>
  /\ UNCHANGED <<batchVars, hookVars, convVars>>

\* the gate loop issues a fix call after every failing verdict, the last
\* attempt included
GateReturnsAlwaysFix ==
  /\ gpc = "gate"
  /\ \E output \in GateOutputs :
       LET gateResult == parseGateOutput(output)
           recorded == [runState EXCEPT !.gate_results = Append(@, gateResult)]
       IN IF gateResult.passed
          THEN /\ runState' = [recorded EXCEPT !.status = "gate_passed"]
               /\ goalStateFile' = saveGoalState(runState')
               /\ gpc' = "tail"
               /\ UNCHANGED <<gateAttempt, gcalls>>
          ELSE /\ runState' = recorded
               /\ goalStateFile' = saveGoalState(runState')
               /\ gcalls' = [gcalls EXCEPT !.fix = @ + 1]
               /\ gpc' = "fix"
               /\ UNCHANGED gateAttempt
  /\ UNCHANGED <<goalRuns, goalCfg, startIteration, buildPrompt, iterWrites, iteration, loopExit>>
  /\ UNCHANGED <<batchVars, hookVars, convVars>>

\* the gate call returns a text: record the verdict; passed ends the run,
\* failed before the last attempt issues a fix call, failed on the last
\* attempt ends as gate_failed (573-624)
GateReturns ==
  /\ gpc = "gate"
  /\ \E output \in GateOutputs :
       LET gateResult == parseGateOutput(output)
           recorded == [runState EXCEPT !.gate_results = Append(@, gateResult)]
       IN IF gateResult.passed
          THEN /\ runState' = [recorded EXCEPT !.status = "gate_passed"]
               /\ goalStateFile' = saveGoalState(runState')
               /\ gpc' = "tail"
               /\ UNCHANGED <<gateAttempt, gcalls>>
          ELSE IF gateAttempt < maxGateAttempts
          THEN /\ runState' = recorded
               /\ goalStateFile' = saveGoalState(runState')
               /\ gcalls' = [gcalls EXCEPT !.fix = @ + 1]
               /\ gpc' = "fix"
               /\ UNCHANGED gateAttempt
          ELSE /\ runState' = [recorded EXCEPT !.status = "gate_failed"]
               /\ goalStateFile' = saveGoalState(runState')
               /\ gateAttempt' = gateAttempt + 1
               /\ gpc' = "gateTop"
               /\ UNCHANGED gcalls
  /\ UNCHANGED <<goalRuns, goalCfg, startIteration, buildPrompt, iterWrites, iteration, loopExit>>
  /\ UNCHANGED <<batchVars, hookVars, convVars>>

\* the fix call throws or ends without a result (606, 616-619)
FixFails ==
  /\ gpc = "fix"
  /\ gateAttempt' = gateAttempt + 1
  /\ gpc' = "gateTop"
  /\ UNCHANGED <<goalRuns, goalCfg, startIteration, buildPrompt, runState, goalStateFile, iterWrites, iteration,
                 gcalls, loopExit>>
  /\ UNCHANGED <<batchVars, hookVars, convVars>>

\* the fix call returns a text: it is recorded as iteration
\* runState.iterations.length + 1 (598, 606-612)
FixReturns ==
  /\ gpc = "fix"
  /\ \E output \in BuildOutputs :
       LET fixIteration == Len(runState.iterations) + 1
           fixState == parseIterationOutput(output, fixIteration)
       IN /\ iterWrites' = Append(iterWrites, fixState)
          /\ runState' = [runState EXCEPT !.iterations = Append(@, fixState)]
          /\ goalStateFile' = saveGoalState(runState')
  /\ gateAttempt' = gateAttempt + 1
  /\ gpc' = "gateTop"
  /\ UNCHANGED <<goalRuns, goalCfg, startIteration, buildPrompt, iteration, gcalls, loopExit>>
  /\ UNCHANGED <<batchVars, hookVars, convVars>>

\* after the gate: a run still running whose last record is not agent_done
\* ends as max_iterations; runGoal returns (634-644)
GoalTail ==
  /\ gpc = "tail"
  /\ LET n == Len(runState.iterations)
         lastDone == n > 0 /\ runState.iterations[n].agent_done
     IN IF runState.status = "running" /\ ~lastDone
        THEN /\ runState' = [runState EXCEPT !.status = "max_iterations"]
             /\ goalStateFile' = saveGoalState(runState')
        ELSE UNCHANGED <<runState, goalStateFile>>
  /\ gpc' = "returned"
  /\ UNCHANGED <<goalRuns, goalCfg, startIteration, buildPrompt, iterWrites, iteration, gateAttempt, gcalls, loopExit>>
  /\ UNCHANGED <<batchVars, hookVars, convVars>>

\* the process is killed while runGoal waits for a call: the files stay
GoalKill ==
  /\ gpc \in {"build", "gate", "fix"}
  /\ gpc' = "idle"
  /\ UNCHANGED <<goalRuns, goalCfg, startIteration, buildPrompt, runState, goalStateFile, iterWrites, iteration,
                 gateAttempt, gcalls, loopExit>>
  /\ UNCHANGED <<batchVars, hookVars, convVars>>

NextGoal ==
  \/ GoalBegin
  \/ LoopCheck
  \/ BuildFails
  \/ BuildReturns
  \/ AfterLoop
  \/ GateTop
  \/ GateFails
  \/ GateReturns
  \/ FixFails
  \/ FixReturns
  \/ GoalTail
  \/ GoalKill

SpecGoal == InitGoal /\ [][NextGoal]_vars

\* a step of runGoal itself: every action of a run but its start and the kill
GoalStep ==
  \/ LoopCheck
  \/ BuildFails
  \/ BuildReturns
  \/ AfterLoop
  \/ GateTop
  \/ GateFails
  \/ GateReturns
  \/ FixFails
  \/ FixReturns
  \/ GoalTail

\* runGoal under the assumption that every call it awaits returns or fails
\* and that the process keeps running between calls
SpecGoalFair == InitGoal /\ [][NextGoal]_vars /\ WF_vars(GoalStep)


\* ---- isConverging applied to any history and threshold
Histories == SeqsUpTo({IterationState(0, r, FALSE) : r \in 0..MaxRemaining}, MaxHistory)

InitConverge ==
  /\ BatchIdle
  /\ HookIdle
  /\ GoalIdle
  /\ cStates \in Histories
  /\ cThreshold \in 0..MaxHistory
  /\ cResult = None

CallIsConverging ==
  /\ cResult = None
  /\ cResult' = Some(isConverging(cStates, cThreshold))
  /\ UNCHANGED <<cStates, cThreshold>>
  /\ UNCHANGED <<batchVars, hookVars, runVars>>

SpecConverge == InitConverge /\ [][CallIsConverging]_vars

\* ------------------------------------------------------------------ claims
Range(seq) == {seq[i] : i \in DOMAIN seq}

FirstIndex(seq, x) == CHOOSE i \in DOMAIN seq : seq[i] = x /\ \A j \in 1..(i - 1) : seq[j] # x

\* the outcome runJob just returned (valid at pc = "saved")
LastOutcome == state.completed[taskHash(cur)]

AllAre(seq, f) == seq # <<>> /\ \A i \in DOMAIN seq : seq[i] = f

\* C1: a job list run to completion without interruption returns exactly one
\* JobOutcome per distinct content key, in the order of the original input.
C1_OnePerKeyInInputOrder ==
  (pc = "done" /\ runs = 1) =>
    /\ \A i, j \in DOMAIN results :
         i # j => taskHash(results[i].task) # taskHash(results[j].task)
    /\ {taskHash(results[i].task) : i \in DOMAIN results} = DOMAIN state.completed
    /\ \A i, j \in DOMAIN results :
         (i < j /\ results[i].task \in Range(configs) /\ results[j].task \in Range(configs))
           => FirstIndex(configs, results[i].task) <= FirstIndex(configs, results[j].task)

\* What an uninterrupted runJob returns for `prompt` from attempt `att` on
\* under the scripted Adapter: status "throws" when runJob throws, "unset"
\* when the script has not shown the fate of a call this run would make.
RECURSIVE RefRunJob(_, _, _)
RefRunJob(prompt, att, retries) ==
  LET rc == jobCfg.retry_count
      f == script[<<prompt, att, "primary">>]
      v == script[<<prompt, att, "verify">>]
  IN IF ~claudePath THEN JobResult(prompt, "failed", FALSE, 0)
     ELSE IF f = "unset" THEN JobResult(prompt, "unset", FALSE, 0)
     ELSE IF f = "timeout"
       THEN IF TimeoutRetryAllowed(att, rc)
            THEN RefRunJob(prompt, att + 1, att + 1)
            ELSE JobResult(prompt, "timeout", FALSE, retries)
     ELSE IF f \in {"retryable", "fatal"}
       THEN IF ErrorRetryAllowed(f, att, rc)
            THEN JobResult(prompt, "throws", FALSE, 0)
            ELSE JobResult(prompt, "failed", FALSE, retries)
     ELSE IF ~ShouldVerify(jobCfg.verify, IF f = "ok" THEN <<"s">> ELSE None)
       THEN JobResult(prompt, "success", jobCfg.verify, retries)
     ELSE IF v = "unset" THEN JobResult(prompt, "unset", FALSE, 0)
     ELSE IF v = "v_unfixable" THEN JobResult(prompt, "verification_failed", FALSE, retries)
     ELSE IF v \in {"v_ok", "v_timeout"} THEN JobResult(prompt, "success", jobCfg.verify, retries)
     ELSE IF ErrorRetryAllowed(v, att, rc)
       THEN JobResult(prompt, "throws", FALSE, 0)
       ELSE JobResult(prompt, "failed", FALSE, retries)

\* C2: with the same jobs and a scripted Adapter, a run that was killed any
\* number of times after checkpoint writes and restarted ends with the
\* completedByKey of the uninterrupted run: the keys of the job list, each
\* with the outcome the uninterrupted runJob returns.
C2_IdempotentUnderInterruption ==
  (pc = "done" /\ edits = 0) =>
    /\ DOMAIN state.completed = {taskHash(p) : p \in Range(configs)}
    /\ \A p \in Range(configs) : state.completed[taskHash(p)] = RefRunJob(p, 0, 0)

\* a run that resumed a job interrupted in flight, after an earlier job had
\* completed, has ended
C2_Witness ==
  /\ pc = "done" /\ edits = 0 /\ runs = 2
  /\ interrupted = taskHash("pB")
  /\ Len(results) = 2
  /\ results[1].retries = 1
  /\ results[2].status = "success"

\* C3: once a key has an outcome in the checkpoint, no step starts that job
\* again, issues an Adapter call for it, or changes or removes its outcome
\* while the checkpoint exists.
C3_CompletedIsTerminal ==
  [][\A k \in (IF stateFile = None THEN {} ELSE DOMAIN stateFile[1].completed) :
       /\ stateFile' # None =>
            /\ k \in DOMAIN stateFile'[1].completed
            /\ stateFile'[1].completed[k] = stateFile[1].completed[k]
       /\ pc' = "marked" => taskHash(cur') # k
       /\ (call' # None /\ call' # call) => call'[1].hash # k]_vars

\* after a restart, a job recorded as timeout stays recorded while the next
\* job is being executed
C3_Witness ==
  /\ runs = 2
  /\ pc = "call"
  /\ cur = "pB"
  /\ stateFile # None
  /\ taskHash("pA") \in DOMAIN stateFile[1].completed
  /\ stateFile[1].completed[taskHash("pA")].status = "timeout"

\* C4: in every persisted checkpoint, inProgress, if present, has a key that
\* is not a key of completedByKey.
C4_InProgressNotCompleted ==
  (stateFile # None /\ stateFile[1].inProgress # None) =>
    stateFile[1].inProgress[1].hash \notin DOMAIN stateFile[1].completed

\* C5: from the moment a job is started until it completes (before its first
\* Adapter call and during every later one), the checkpoint file has
\* inProgress set to that job's key and prompt.
C5_MarkedBeforeFirstCall ==
  pc \in {"marked", "call", "backoff", "verify"} =>
    /\ stateFile # None
    /\ stateFile[1].inProgress # None
    /\ stateFile[1].inProgress[1].hash = taskHash(cur)
    /\ stateFile[1].inProgress[1].prompt = cur

\* C6: a session id persisted for an in-progress job stays in the checkpoint
\* (possibly replaced by a newer one of that job) until the job completes;
\* and no checkpoint has a job both in progress and completed.
C6_SessionNeverLost ==
  [][/\ (stateFile' # None /\ stateFile'[1].inProgress # None) =>
          stateFile'[1].inProgress[1].hash \notin DOMAIN stateFile'[1].completed
     /\ (/\ stateFile # None
          /\ stateFile[1].inProgress # None
          /\ stateFile[1].inProgress[1].sessionId # None
          /\ stateFile' # None
          /\ stateFile[1].inProgress[1].hash \notin DOMAIN stateFile'[1].completed)
         => (/\ stateFile'[1].inProgress # None
             /\ stateFile'[1].inProgress[1].hash = stateFile[1].inProgress[1].hash
             /\ stateFile'[1].inProgress[1].sessionId # None)]_vars

\* C7: a job whose every Adapter call timed out made retry_count + 1 attempts
\* and returned status timeout with retries = retry_count.
C7_TimeoutExhaustion ==
  (pc = "saved" /\ AllAre(hist, "timeout")) =>
    /\ Len(hist) = jobCfg.retry_count + 1
    /\ LastOutcome.status = "timeout"
    /\ LastOutcome.retries = jobCfg.retry_count

\* retry_count = 2: three attempts, all timed out
C7_Witness ==
  /\ pc = "saved"
  /\ jobCfg.retry_count = 2
  /\ hist = <<"timeout", "timeout", "timeout">>
  /\ LastOutcome.status = "timeout"

\* C8: a job whose calls fail with a retryable error R < retry_count times
\* and then succeed returns success with retries = R; in particular runJob
\* has not thrown after fewer than retry_count + 1 retryable errors.
C8_RetryThenSuccess ==
  /\ \A R \in 0..MaxRetryCount :
       (/\ pc = "saved"
        /\ R < jobCfg.retry_count
        /\ Len(hist) > R
        /\ \A i \in 1..R : hist[i] = "retryable"
        /\ hist[R + 1] \in {"ok", "ok_nosession"}
        /\ \A i \in (R + 2)..Len(hist) : hist[i] \in {"v_ok", "v_timeout"})
       => (LastOutcome.status = "success" /\ LastOutcome.retries = R)
  /\ ~(/\ pc = "crashed"
       /\ AllAre(hist, "retryable")
       /\ Len(hist) <= jobCfg.retry_count)

\* C9: an Adapter call that failed with an error that is neither a timeout
\* nor retryable is the last call of its job, and runJob returned failed.
C9_FatalStops ==
  \A i \in DOMAIN hist :
    hist[i] \in {"fatal", "v_fatal"} =>
      /\ i = Len(hist)
      /\ pc = "saved"
      /\ call = None
      /\ LastOutcome.status = "failed"

\* a fatal error on the first call with two retries left
C9_Witness ==
  /\ pc = "saved"
  /\ jobCfg.retry_count = 2
  /\ hist = <<"fatal">>
  /\ LastOutcome.status = "failed"
  /\ LastOutcome.retries = 0

\* C10: runJob never throws: whatever the Adapter does, the runner is never
\* stopped by an exception, and a returned outcome is recorded.
C10_NeverRaised ==
  /\ pc # "crashed"
  /\ pc = "saved" => taskHash(cur) \in DOMAIN state.completed

\* C11: when the verification pass answered and its text holds one of the
\* phrases "cannot fix", "unable to", "blocked by", "requires manual" in any
\* casing, runJob returned verification_failed with verified = false.
C11_UnfixableMarkerFails ==
  (/\ pc = "saved"
   /\ hist # <<>>
   /\ hist[Len(hist)] \in {"v_ok", "v_unfixable"}
   /\ \E i \in 1..(Len(verifyText) - 1) :
        <<LowerWord(verifyText[i]), LowerWord(verifyText[i + 1])>> \in
          {<<"cannot", "fix">>, <<"unable", "to">>, <<"blocked", "by">>,
           <<"requires", "manual">>})
  => /\ LastOutcome.status = "verification_failed"
     /\ LastOutcome.verified = FALSE

\* the primary pass succeeded after one timeout and the verification
\* answered "Requires MANUAL review"
C11_Witness ==
  /\ pc = "saved"
  /\ hist = <<"timeout", "ok", "v_unfixable">>
  /\ verifyText = <<"Requires", "MANUAL", "review">>
  /\ LastOutcome.status = "verification_failed"
  /\ LastOutcome.verified = FALSE
  /\ LastOutcome.retries = 1

\* C12: a verification call that timed out is the last Adapter call of its
\* job (no second verification, no retry of the primary pass) and runJob
\* returned success with the retries used so far.
C12_VerifyTimeoutTolerated ==
  \A i \in DOMAIN hist :
    hist[i] = "v_timeout" =>
      /\ i = Len(hist)
      /\ pc = "saved"
      /\ call = None
      /\ LastOutcome.status = "success"
      /\ LastOutcome.retries = Len(hist) - 2

\* the verification timed out with both retries still unused
C12_Witness ==
  /\ pc = "saved"
  /\ jobCfg.retry_count = 2
  /\ hist = <<"ok", "v_timeout">>
  /\ LastOutcome.status = "success"
  /\ LastOutcome.retries = 0

\* C13: when a security policy is configured, the Adapter call in flight
\* (primary pass, retry or verification pass) carries the security hooks.
C13_HooksOnEveryCall ==
  (call # None /\ jobCfg.security) => call[1].hooks

\* a path resolves inside the sandbox root: the root's segments are a
\* prefix of the path's segments
ResolvesInside(filePath, sandboxDir) ==
  LET root == resolve(Cwd, sandboxDir)
      path == resolve(Cwd, filePath)
  IN Len(path) >= Len(root) /\ SubSeq(path, 1, Len(root)) = root

IsFileAction(in) == in # None /\ in[1].tool_name \in FileTools /\ in[1].arg # <<>>

DeniedBy(out, kind) == out # None /\ out[1].permissionDecision = "deny" /\ out[1].kind = kind

\* C14: with a sandbox root set, a file action is denied for containment
\* when its path resolves outside the root, and is not denied for
\* containment when its path resolves inside the root.
C14_SandboxContainment ==
  (IsFileAction(hookIn) /\ secCfg.sandbox_dir # None) =>
    (DeniedBy(hookOut, "sandbox") <=> ~ResolvesInside(hookIn[1].arg, secCfg.sandbox_dir[1]))

\* C15: under the default deny patterns and no sandbox, a file action on the
\* path ".env" is denied and the denial cites one of the default patterns.
C15_BareEnvDenied ==
  (/\ IsFileAction(hookIn)
   /\ hookIn[1].arg = PathEnv
   /\ secCfg.deny_patterns = None
   /\ secCfg.sandbox_dir = None)
  => /\ DeniedBy(hookOut, "pattern")
     /\ \E k \in DOMAIN DEFAULT_DENY_PATTERNS : hookOut[1].cited = DEFAULT_DENY_PATTERNS[k]

\* the reference decision of C16
RefDecision(config, filePath) ==
  LET pats == IF config.deny_patterns = None THEN DEFAULT_DENY_PATTERNS
              ELSE config.deny_patterns[1]
      hits == {k \in DOMAIN pats : matchesPattern(filePath, pats[k])}
  IN IF config.sandbox_dir # None /\ ~ResolvesInside(filePath, config.sandbox_dir[1])
     THEN Deny("sandbox", filePath, config.sandbox_dir[1])
     ELSE IF hits # {}
       THEN Deny("pattern", filePath, pats[CHOOSE k \in hits : \A j \in hits : k <= j])
     ELSE None

\* C16: the decision for a file action with a path is: deny citing the
\* sandbox if a root is set and the path is outside it, otherwise deny citing
\* the first matching deny pattern in configured order, otherwise allow.
C16_DecisionIsReference ==
  IsFileAction(hookIn) => hookOut = RefDecision(secCfg, hookIn[1].arg)

\* C17: a Bash action is never denied; with an audit sink its command is
\* appended, with a timestamp not before the earlier entries, in the step
\* that lets it execute; without an audit sink nothing is ever written.
C17_BashAuditedNotDenied ==
  [][/\ (toolUses' # toolUses /\ hookIn'[1].tool_name = "Bash") =>
          /\ hookOut' = None
          /\ hookReq' = hookIn'
          /\ secCfg.audit_log =>
               /\ Len(auditFile') = Len(auditFile) + 1
               /\ SubSeq(auditFile', 1, Len(auditFile)) = auditFile
               /\ auditFile'[Len(auditFile')].text = hookIn'[1].arg
               /\ \A i \in DOMAIN auditFile : auditFile[i].ts < auditFile'[Len(auditFile')].ts
     /\ ~secCfg.audit_log => auditFile' = <<>>]_vars

\* a second tool call, a Bash command under a sandbox, deny patterns and an
\* audit sink, is executing and its command is the last audit entry
C17_Witness ==
  /\ hookReq = Some([tool_name |-> "Bash", arg |-> "rm -rf ../o"])
  /\ secCfg.sandbox_dir = Some(<<"s">>)
  /\ secCfg.deny_patterns = None
  /\ secCfg.audit_log
  /\ toolUses = 2
  /\ Len(auditFile) = 2
  /\ auditFile[2] = [ts |-> 2, tag |-> "BASH", text |-> "rm -rf ../o"]

\* the last W entries of a history, W taken literally (none for W = 0)
LastW(states, W) ==
  SubSeq(states, Len(states) - W + 1, Len(states))

DecreasingPair(states) ==
  \E i \in 2..Len(states) : states[i].remaining < states[i - 1].remaining

WindowStalled(states, W) ==
  Len(states) >= W /\ ~DecreasingPair(LastW(states, W))

\* runGoal has been called and has not returned
InRun == gpc \in {"loop", "build", "afterLoop", "gateTop", "gate", "fix", "tail"}

\* C18: while the last W recorded iterations (at least W recorded) hold no
\* strictly decreasing pair of remaining counts, the run issues no call of
\* any kind (build, gate, fix), and when it returns its status is stalled.
C18_StallStopsRun ==
  [][(InRun /\ WindowStalled(runState.iterations, goalCfg.convergence_threshold))
       => /\ gcalls' = gcalls
          /\ (gpc' = "returned" => runState'.status = "stalled")]_vars

\* C19: isConverging returns true exactly when fewer than W iterations are
\* recorded or some consecutive pair of remaining counts among the last W
\* recorded iterations strictly decreases.
C19_ConvergencePredicate ==
  cResult # None =>
    cResult[1] = (Len(cStates) < cThreshold \/ DecreasingPair(LastW(cStates, cThreshold)))

\* C20: once a build iteration of this run was recorded with agent_done, the
\* next call the run issues is the first gate attempt, no build or fix call
\* comes before it, and the run does not return without it.
C20_DoneThenGate ==
  [][(InRun /\ loopExit = "done" /\ gcalls.gate = 0)
       => /\ gpc' # "returned"
          /\ (gcalls' # gcalls =>
                /\ gcalls' = [gcalls EXCEPT !.gate = 1]
                /\ gateAttempt = 1)]_vars

\* the status is one of the four terminal values
Terminal(status) == status \in {"gate_passed", "gate_failed", "stalled", "max_iterations"}

AnyDone(states) == \E i \in DOMAIN states : states[i].agent_done

\* C21: a run that left the build loop because maxIterations was exhausted,
\* with no recorded iteration reporting agent_done, returns with status
\* max_iterations.
C21_ExhaustedIsMaxIterations ==
  (gpc = "returned" /\ loopExit = "max" /\ ~AnyDone(runState.iterations))
    => runState.status = "max_iterations"

\* C22: no run issues more than 3 gate attempts; a failing verdict of
\* attempt 1 or 2 issues exactly one fix call, a failing verdict of attempt 3
\* issues none and sets gate_failed; a fix iteration that ended has its
\* record appended to the history and is followed by the next gate attempt.
C22_GateRetryProtocol ==
  [][/\ gcalls.gate <= maxGateAttempts
     /\ (gpc = "gate" /\ Len(runState'.gate_results) > Len(runState.gate_results)
           /\ ~runState'.gate_results[Len(runState'.gate_results)].passed)
        => IF gateAttempt < maxGateAttempts
           THEN /\ gcalls' = [gcalls EXCEPT !.fix = @ + 1]
                /\ gpc' = "fix"
                /\ runState'.status = "running"
           ELSE /\ gcalls' = gcalls
                /\ runState'.status = "gate_failed"
     /\ (gpc = "fix" /\ gpc' # "idle")
        => /\ Len(runState'.iterations) = Len(runState.iterations) + 1
           /\ goalStateFile' = Some(runState')
           /\ gpc' = "gateTop"
           /\ gateAttempt' = gateAttempt + 1
           /\ gateAttempt' <= maxGateAttempts]_vars

\* C23: a passing verdict sets gate_passed and the run then only returns; no
\* gate attempt and no fix iteration is issued while the status is
\* gate_passed, and the status is gate_passed, in memory and in the goal
\* state file, only when the last recorded verdict passed.
C23_PassStops ==
  [][/\ (gpc = "gate" /\ Len(runState'.gate_results) > Len(runState.gate_results)
           /\ runState'.gate_results[Len(runState'.gate_results)].passed)
        => /\ runState'.status = "gate_passed"
           /\ goalStateFile' = Some(runState')
           /\ gpc' = "tail"
           /\ gcalls' = gcalls
     /\ runState.status = "gate_passed"
        => /\ gpc \notin {"gateTop", "gate", "fix"}
           /\ gpc' \notin {"gateTop", "gate", "fix"}
           /\ runState.gate_results # <<>>
           /\ runState.gate_results[Len(runState.gate_results)].passed
     /\ (goalStateFile # None /\ goalStateFile[1].status = "gate_passed")
        => /\ goalStateFile[1].gate_results # <<>>
           /\ goalStateFile[1].gate_results[Len(goalStateFile[1].gate_results)].passed]_vars

\* the second gate attempt passed after a failed first attempt and its fix
\* iteration, and runGoal returned gate_passed
C23_Witness ==
  /\ gpc = "returned"
  /\ goalRuns = 1
  /\ runState.status = "gate_passed"
  /\ gcalls.gate = 2
  /\ gcalls.fix = 1
  /\ Len(runState.gate_results) = 2
  /\ ~runState.gate_results[1].passed
  /\ runState.gate_results[2].passed

\* C24: once the goal state file holds a terminal status, no step writes a
\* different status to it, a later call of runGoal on that file included.
C24_TerminalIsMonotonic ==
  [][(goalStateFile # None /\ Terminal(goalStateFile[1].status))
       => goalStateFile'[1].status = goalStateFile[1].status]_vars

\* C25: when the build call of an iteration ends (with a text without a
\* parsable block, or with no text), a record for that iteration with
\* agent_done = false is appended to the history and saved, and the loop
\* goes on with the next iteration.
C25_DegradedRecord ==
  [][(gpc = "build" /\ gpc' # "idle"
        /\ \A output \in BuildOutputs :
             output.yaml = "ok" =>
               runState'.iterations #
                 Append(runState.iterations, parseIterationOutput(output, iteration)))
       => /\ runState'.iterations =
               Append(runState.iterations, IterationState(iteration, 1, FALSE))
          /\ goalStateFile' = Some(runState')
          /\ gpc' = "loop"
          /\ iteration' = iteration + 1]_vars

\* cli.ts, task mode: process.exit(1) when some returned result is not a
\* success, else the process ends with code 0
TaskExitCode(res) ==
  IF \E i \in DOMAIN res : res[i].status # "success" THEN 1 ELSE 0

\* cli.ts, goal mode: process.exit(1) unless the status is gate_passed
GoalExitCode(st) == IF st.status # "gate_passed" THEN 1 ELSE 0

\* C26: when runJobsWithState has returned, the exit code is non-zero exactly
\* when some job executed in the batch has an outcome other than success,
\* whatever the reloads did to the job list; in goal mode it is non-zero
\* exactly when the returned status is not gate_passed.
C26_ExitCode ==
  /\ pc = "done" =>
       (TaskExitCode(results) # 0
          <=> \E k \in DOMAIN state.completed : state.completed[k].status # "success")
  /\ gpc = "returned" =>
       (GoalExitCode(runState) # 0 <=> runState.status # "gate_passed")

\* C27: the checkpoint file is deleted only by the return of
\* runJobsWithState, every return deletes it, and at that moment every job of
\* the current list has an outcome in completed.
C27_CheckpointDeletion ==
  [][/\ (stateFile # None /\ stateFile' = None)
        => /\ pc = "loop"
           /\ pc' = "done"
           /\ \A i \in DOMAIN currentConfigs :
                taskHash(currentConfigs[i]) \in DOMAIN state.completed
     /\ (pc # "done" /\ pc' = "done") => stateFile' = None]_vars

\* a run killed during its second job was started again, ran that job and
\* returned both outcomes; the checkpoint is gone
C27_Witness ==
  /\ pc = "done"
  /\ runs = 2
  /\ interrupted = taskHash("pB")
  /\ stateFile = None
  /\ Len(results) = 2
  /\ DOMAIN state.completed = {taskHash("pA"), taskHash("pB")}

HasOutcome(prompt, completed) ==
  \E k \in DOMAIN completed : completed[k].task = prompt

\* position of the first job of the list without an outcome, 0 if none
FirstWithoutOutcome(cfgs, completed) ==
  IF \A i \in DOMAIN cfgs : HasOutcome(cfgs[i], completed) THEN 0
  ELSE CHOOSE i \in DOMAIN cfgs :
         /\ ~HasOutcome(cfgs[i], completed)
         /\ \A j \in 1..(i - 1) : HasOutcome(cfgs[j], completed)

\* C29: whatever order the job list has when a run is started again (jobs
\* permuted, jobs inserted), the checkpoint is loaded as it was written, the
\* job selected next is the first of the list that has no outcome yet, jobs
\* with an outcome are never selected, and at return every job of the list
\* has an outcome.
C29_OrderIndependentKey ==
  [][/\ (pc \in {"idle", "done", "crashed"} /\ pc' = "loop" /\ stateFile # None)
        => state'.completed = stateFile[1].completed
     /\ (pc = "loop" /\ pc' = "marked")
        => /\ FirstWithoutOutcome(currentConfigs, state.completed) # 0
           /\ cur' = currentConfigs[FirstWithoutOutcome(currentConfigs, state.completed)]
           /\ state'.completed = state.completed
     /\ (pc = "loop" /\ pc' = "done")
        => FirstWithoutOutcome(currentConfigs, state.completed) = 0]_vars

\* the run was killed during pB after pA had completed, the list was
\* reordered to pB, pA, and the restarted run returned after running pB only
C29_Witness ==
  /\ pc = "done"
  /\ runs = 2
  /\ edits = 1
  /\ interrupted = taskHash("pB")
  /\ configs = <<"pB", "pA">>
  /\ currentConfigs = <<"pB", "pA">>
  /\ Len(results) = 2
  /\ results[1].task = "pB"
  /\ results[2].task = "pA"

\* C30: the job selected gets as resume hint the session id of the
\* checkpoint's inProgress entry when that entry has the job's key, else
\* none; after a timeout with attempts left the resume id becomes the session
\* id the timed-out attempt established, or stays as it was when it
\* established none; every primary attempt is issued with the resume id of
\* that moment, and sends the continuation prompt when it has one, the job's
\* own prompt when it has none.
C30_ResumeLastSession ==
  [][/\ (pc = "loop" /\ pc' = "marked")
        => resumeSessionId' =
             IF /\ stateFile # None
                /\ stateFile[1].inProgress # None
                /\ stateFile[1].inProgress[1].hash = taskHash(cur')
             THEN stateFile[1].inProgress[1].sessionId
             ELSE None
     /\ (pc = "call" /\ pc' = "backoff")
        => resumeSessionId' = IF sessionId # None THEN sessionId ELSE resumeSessionId
     /\ (pc \in {"marked", "backoff"} /\ pc' = "call")
        => /\ call'[1].resume = resumeSessionId
           /\ resumeSessionId' = resumeSessionId
           /\ call'[1].text = IF resumeSessionId # None THEN ContinuationPrompt ELSE cur]_vars

\* after a restart that found pA in progress, the first attempt established
\* a session and timed out, and the retry in flight resumes the session of
\* the timed-out attempt with the continuation prompt
C30_Witness ==
  /\ pc = "call"
  /\ runs = 2
  /\ interrupted = taskHash("pA")
  /\ cur = "pA"
  /\ attempt = 1
  /\ hist = <<"timeout">>
  /\ call[1].resume = SessionOf(2, "pA", 0, "primary")
  /\ call[1].text = ContinuationPrompt

\* C37: whenever runGoal has returned, the status of the state it returned
\* is gate_passed, gate_failed, stalled or max_iterations, never running.
C37_ReturnsTerminal ==
  gpc = "returned" => Terminal(runState.status)

\* C38: the iteration numbers of the recorded iterations are strictly
\* increasing, and no two writes of per-iteration files carry the same
\* iteration number.
C38_IterationNumbersUnique ==
  /\ \A i \in 1..(Len(runState.iterations) - 1) :
       runState.iterations[i].iteration < runState.iterations[i + 1].iteration
  /\ \A i, j \in DOMAIN iterWrites :
       i # j => iterWrites[i].iteration # iterWrites[j].iteration

\* C31: while a build call is in flight, its prompt embeds the most recently
\* recorded iteration state if the history holds at least one record, and
\* no previous state only if the history is empty.
C31_PromptEmbedsLastRecord ==
  gpc = "build" =>
    LET n == Len(runState.iterations)
    IN buildPrompt.previous = (IF n > 0 THEN Some(runState.iterations[n]) ELSE None)

\* the calls and records of the current invocation stay within their caps
CallsWithinCaps ==
  /\ gcalls.build <= goalCfg.max_iterations
  /\ gcalls.gate <= maxGateAttempts
  /\ gcalls.fix <= maxGateAttempts - 1
  /\ Len(runState.iterations) <= (startIteration - 1) + goalCfg.max_iterations + 2

\* C39: an invocation of runGoal whose calls all return or fail comes to an
\* end (the runner is again and again outside a run: it has returned or the
\* process was killed), and all along it has issued at most maxIterations build calls, at
\* most 3 gate calls and at most 2 fix calls, and has added at most
\* maxIterations + 2 records to the history it started with.
C39_TerminatesWithinCaps ==
  /\ [](gpc # "off" /\ gpc # "idle" => CallsWithinCaps)
  /\ []<>(~InRun)

C39_Witness ==
  /\ gpc = "returned"
  /\ gcalls = [build |-> goalCfg.max_iterations, gate |-> 3, fix |-> 2]
  /\ Len(runState.iterations) = (startIteration - 1) + goalCfg.max_iterations + 2

\* the Adapter calls started by the runner that are still running: the call
\* it awaits and the calls it left behind at a timeout
CallsRunning == Cardinality(abandoned) + (IF call # None THEN 1 ELSE 0)

\* every outcome recorded in memory is in the checkpoint file
OutcomesPersisted ==
  state.completed = EmptyMap \/ (stateFile # None /\ stateFile[1].completed = state.completed)

\* C32: at every instant at most one Adapter call started by the runner is
\* still running (a call left at a timeout does not run beside the retry or
\* the next job's call), and while a call is in flight every outcome
\* recorded so far has been persisted.
C32_StrictlySequential ==
  /\ CallsRunning <= 1
  /\ call # None => OutcomesPersisted

\* C33: when a call that was abandoned at a timeout reports its session id
\* after the runner has moved on, the checkpoint still names in inProgress
\* the job that is being executed, not the job of the abandoned call.
C33_LateSessionIdIgnored ==
  [][(pc' = pc /\ abandoned' # abandoned /\ abandoned' \subseteq abandoned
        /\ state'.inProgress # None /\ cur # "")
       => state'.inProgress[1].hash = taskHash(cur)]_vars

\* the primary-pass calls runJob has made for the current job
PrimaryCalls == Len(SelectSeq(hist, LAMBDA f : f \in PrimaryFates))

\* C34: the outcome runJob has just returned has 0 <= retries <= retry_count;
\* runJob made at most retry_count + 1 primary-pass calls for the job, and
\* exactly retries + 1 of them if it made any.
C34_RetriesCountCalls ==
  pc = "saved" =>
    /\ LastOutcome.retries \in 0..jobCfg.retry_count
    /\ PrimaryCalls <= jobCfg.retry_count + 1
    /\ PrimaryCalls > 0 => PrimaryCalls = LastOutcome.retries + 1

C34_Witness ==
  /\ pc = "saved"
  /\ jobCfg.retry_count = MaxRetryCount
  /\ PrimaryCalls = MaxRetryCount + 1
  /\ LastOutcome.retries = MaxRetryCount
  /\ LastOutcome.status = "success"

\* C35: a job whose calls all failed with a retryable error other than a
\* timeout has ended only after retry_count + 1 attempts, as an outcome
\* with status failed and retries = retry_count; and an outcome has status
\* timeout only if the last primary-pass call timed out.
C35_RetryableExhaustion ==
  /\ (pc \in {"saved", "crashed"} /\ AllAre(hist, "retryable")) =>
       /\ pc = "saved"
       /\ Len(hist) = jobCfg.retry_count + 1
       /\ LastOutcome.status = "failed"
       /\ LastOutcome.retries = jobCfg.retry_count
  /\ (pc = "saved" /\ LastOutcome.status = "timeout") =>
       (hist # <<>> /\ hist[Len(hist)] = "timeout")

\* C36: an outcome with verified = true has status success, belongs to a
\* job whose verify option is not false, and was returned after a
\* verification call that answered without an unfixable marker; an outcome
\* whose verification was skipped or timed out has verified = false.
C36_VerifiedMeansVerified ==
  (pc = "saved" /\ LastOutcome.verified) =>
    /\ LastOutcome.status = "success"
    /\ jobCfg.verify
    /\ hist # <<>> /\ hist[Len(hist)] = "v_ok"

\* every job of the current list has an outcome
AllHaveOutcome ==
  \A i \in DOMAIN currentConfigs : IsCompleted(currentConfigs[i], state.completed)

\* C40: every pass of the loop of runJobsWithState that has run a job adds
\* exactly one new key to the completed map, and whenever runJobsWithState
\* has ended every job of the current list has an outcome in that map.
C40_LoopProgress ==
  /\ [][(pc \in {"call", "verify", "marked"} /\ pc' \notin {pc, "idle", "backoff", "call", "verify"})
          => /\ pc' = "saved"
             /\ taskHash(cur) \notin DOMAIN state.completed
             /\ DOMAIN state'.completed = DOMAIN state.completed \cup {taskHash(cur)}]_vars
  /\ [](pc \in {"done", "crashed"} => AllHaveOutcome)

====
